---- MODULE Spec2Model ----
(***************************************************************************)
(* API token subsystem of the BlueWave storefront: the two token stores    *)
(* (accounts.APIToken, subscriptions.UserAPIToken), the bearer resolvers   *)
(* (api.authentication.APITokenAuthentication and                          *)
(* accounts.authentication.APIKeyAuthentication), the token management     *)
(* endpoints, the permission gates, the order-paid receiver that issues    *)
(* package tokens, the concurrent writes of the usage counter and of       *)
(* APIToken.save, and the carts (cart.models, api.api_views.CartViewSet,   *)
(* cart.simple_views) that the token-authenticated API writes.             *)
(*                                                                         *)
(* Time is counted in days.  A JWT is modelled by its claims and by        *)
(* whether its HS256 signature verifies under settings.SECRET_KEY.         *)
(***************************************************************************)
EXTENDS Integers, Sequences, FiniteSets, TLC

\* ------------------------------------------------------------------ bounds
NumUsers == 2
MaxTime == 2
MaxApiTokens == 1
MaxUserTokens == 1
MaxCreds == 2
MaxCapIds == 11
MaxCalls == 1
MaxOrders == 1
MaxQuantity == 2
MaxDeliveries == 2
NumWorkers == 2
MaxUsage == 2
MaxSaveIds == 2
MaxSaves == 3
NumProducts == 2
MaxAdd == 1
MaxCartQuantity == 2
MaxCartItemIds == 2
CallCeiling == 1

\* ------------------------------------------------------- program constants
TokenLimit == 10
WeekDays == 7
LoginJwtDays == 1

Users == 1..NumUsers
Workers == 1..NumWorkers
None == 0
Anonymous == 0

\* ------------------------------------------------------------ credentials
\* Claims of a JWT; a claim that is absent is None.
Cred(signed, api_key_id, user_id, jti, rnd, exp) ==
    [signed |-> signed, api_key_id |-> api_key_id, user_id |-> user_id,
     jti |-> jti, rnd |-> rnd, exp |-> exp]

\* The empty string '' of APIToken.token / of a missing credential.
EmptyToken == Cred(FALSE, None, None, None, None, None)

\* A string that is not a JWT signed with the server's key.
Garbage == Cred(FALSE, 1, 1, None, 1, None)

\* jwt.decode(token, SECRET_KEY, algorithms=['HS256']): signature and exp.
JwtDecodes(c, t) == c.signed /\ (c.exp = None \/ c.exp > t)

\* rest_framework_simplejwt UntypedToken(token): signature, exp claim
\* present and in the future, jti claim present.
UntypedTokenValid(c, t) ==
    c.signed /\ c.exp # None /\ c.exp > t /\ c.jti # None

\* JWTAuthentication.get_user: the token carries a user id claim (InvalidToken
\* otherwise).
GetUserOk(c) == c.user_id # None

\* ------------------------------------------------------------------ state
VARIABLES
    users,            \* accounts_user rows, by id
    orders,           \* orders_order rows with their orders_orderitem rows
    inflight,         \* per worker, the model instance a request has loaded
    now,              \* timezone.now(), in days
    apiTokens,        \* accounts_apitoken rows, by id
    nextApiId,        \* next AutoField id of accounts_apitoken
    userTokens,       \* subscriptions_userapitoken rows, by id
    nextUserTokenId,  \* next AutoField id of subscriptions_userapitoken
    nextRnd,          \* source of random_token / jti values
    replaced,         \* credentials a regenerate has replaced
    carts,            \* cart_cart rows: the users that have a cart
    cartItems,        \* cart_cartitem rows, by id
    nextCartItemId,   \* next AutoField id of cart_cartitem
    sessionItems,     \* cart_sessioncartitem rows of one session cart
    cartflight,       \* per worker, the add_item request in progress
    response          \* outcome of the latest request

storeVars == <<apiTokens, nextApiId, userTokens, nextUserTokenId>>
cartVars == <<carts, cartItems, nextCartItemId, sessionItems, cartflight>>
vars == <<users, orders, inflight, now, apiTokens, nextApiId, userTokens, nextUserTokenId,
          nextRnd, replaced, cartVars, response>>

\* --------------------------------------------------------------- APIToken
\* APIToken.is_expired
IsExpired(rec, t) ==
    IF rec.expires_at = None THEN FALSE ELSE t > rec.expires_at

\* APIToken.is_valid
ApiTokenIsValid(rec, t) == rec.is_active /\ ~IsExpired(rec, t)

\* APIToken.generate_jwt_token
GenerateJwtToken(id, rec, rnd) ==
    Cred(TRUE, id, rec.user, None, rnd, rec.expires_at)

\* APIToken.validate_token: the id of the row it returns, or None.
ValidateToken(c, store, t) ==
    IF ~JwtDecodes(c, t) THEN None
    ELSE IF c.api_key_id = None THEN None
    ELSE IF c.api_key_id \notin DOMAIN store THEN None
    ELSE IF ~store[c.api_key_id].is_active THEN None
    ELSE IF IsExpired(store[c.api_key_id], t) THEN None
    ELSE c.api_key_id

\* ----------------------------------------------------------- UserAPIToken
\* APITokenPackage.get_duration_days
GetDurationDays(duration) ==
    IF duration = "week" THEN WeekDays
    ELSE IF duration = "month" THEN 30
    ELSE IF duration = "year" THEN 365
    ELSE 30

\* UserAPIToken.is_valid
UserTokenIsValid(rec, t) == rec.status = "active" /\ t <= rec.expires_at

\* UserAPIToken.increment_usage
IncrementUsage(rec, t) ==
    [rec EXCEPT !.api_calls_used = @ + 1, !.last_used_at = t]

\* ---------------------------------------------------------------- headers
\* request.META['HTTP_AUTHORIZATION']: present is its truthiness, scheme and
\* creds are the whitespace-separated parts ("" for a header with no part).
Header(present, scheme, creds) ==
    [present |-> present, scheme |-> scheme, creds |-> creds]

NumParts(h) == IF h.scheme = "" THEN 0 ELSE 1 + Len(h.creds)

\* str.lower() on the schemes that occur.
Lower(s) ==
    IF s \in {"Bearer", "bearer", "BEARER"} THEN "bearer"
    ELSE IF s \in {"Token", "token"} THEN "token"
    ELSE s

\* ------------------------------------------------------------- responses
\* request.auth: its class (kind), its row, and the capability attributes;
\* only an APIToken has them, for the other kinds the fields are unused.
NoAuth ==
    [kind |-> "none", id |-> None, can_manage_cart |-> FALSE,
     can_place_orders |-> FALSE, can_manage_wishlist |-> FALSE]
JwtAuth ==
    [kind |-> "jwt", id |-> None, can_manage_cart |-> FALSE,
     can_place_orders |-> FALSE, can_manage_wishlist |-> FALSE]
ApiTokenAuth(id, rec) ==
    [kind |-> "apitoken", id |-> id, can_manage_cart |-> rec.can_manage_cart,
     can_place_orders |-> rec.can_place_orders,
     can_manage_wishlist |-> rec.can_manage_wishlist]
UserTokenAuth(id) ==
    [kind |-> "usertoken", id |-> id, can_manage_cart |-> FALSE,
     can_place_orders |-> FALSE, can_manage_wishlist |-> FALSE]

NoHeader == Header(FALSE, "", <<>>)

Resp(op, header, outcome, user, auth, writes, key) ==
    [op |-> op, header |-> header, outcome |-> outcome, user |-> user,
     auth |-> auth, writes |-> writes, key |-> key]

\* The outcome of an authenticate call: "none" is the return value None,
\* "failed" is AuthenticationFailed, "ok" is a (user, auth) pair.  writes
\* lists the rows the call saves.
AuthOutcome(outcome, user, auth, writes) ==
    [outcome |-> outcome, user |-> user, auth |-> auth, writes |-> writes]

AuthNone == AuthOutcome("none", Anonymous, NoAuth, {})
AuthFailed == AuthOutcome("failed", Anonymous, NoAuth, {})

\* A worker that holds no model instance.  instance is the loaded APIToken
\* instance of a save in progress, as a sequence of at most one row.
Idle == [op |-> "idle", id |-> None, api_calls_used |-> 0, instance |-> <<>>]

\* A worker that serves no add_item request.
NoRequest ==
    [op |-> "idle", header |-> NoHeader, user |-> Anonymous, auth |-> NoAuth,
     product |-> None, quantity |-> 0, id |-> None, loaded |-> 0]

\* An account as UserManager.create_user makes it.
Customer == [user_type |-> "customer", is_superuser |-> FALSE, is_active |-> TRUE]

\* The accounts create_user and create_superuser can make: user_type is
\* 'customer' or 'admin', is_superuser either value.
UserRows ==
    [user_type : {"customer", "admin"}, is_superuser : BOOLEAN, is_active : {TRUE}]

\* User.is_admin_user
IsAdminUser(row) == row.user_type = "admin" \/ row.is_superuser

Init ==
    /\ users = [u \in Users |-> Customer]
    /\ orders = <<>>
    /\ inflight = [w \in Workers |-> Idle]
    /\ now = 1
    /\ apiTokens = <<>>
    /\ nextApiId = 1
    /\ userTokens = <<>>
    /\ nextUserTokenId = 1
    /\ nextRnd = 1
    /\ replaced = {}
    /\ carts = {}
    /\ cartItems = <<>>
    /\ nextCartItemId = 1
    /\ sessionItems = <<>>
    /\ cartflight = [w \in Workers |-> NoRequest]
    /\ response = Resp("init", NoHeader, "none", Anonymous, NoAuth, {}, EmptyToken)

\* The clock advances.
Tick ==
    /\ now < MaxTime
    /\ now' = now + 1
    /\ UNCHANGED <<cartVars, users, orders, inflight, storeVars, nextRnd, replaced, response>>

\* ------------------------------------------- token management: serializers
\* APITokenWithKeySerializer(rec).data: the fields of APITokenSerializer and
\* the token.
APITokenWithKeySerializer(id, rec) ==
    [id |-> id, name |-> rec.name, is_active |-> rec.is_active,
     expires_at |-> rec.expires_at, last_used |-> rec.last_used,
     can_manage_cart |-> rec.can_manage_cart,
     can_place_orders |-> rec.can_place_orders,
     can_manage_wishlist |-> rec.can_manage_wishlist, token |-> rec.token]

\* As APITokenSerializer, with the token among the fields.
APITokenSerializer_WithToken(id, rec) == APITokenWithKeySerializer(id, rec)

\* APITokenSerializer(rec).data: Meta.fields has no 'token'.
APITokenSerializer(id, rec) ==
    [f \in DOMAIN APITokenWithKeySerializer(id, rec) \ {"token"} |->
        APITokenWithKeySerializer(id, rec)[f]]

\* The credential string in a serialized token ('' when there is none).
KeyIn(data) == IF "token" \in DOMAIN data THEN data["token"] ELSE EmptyToken

\* The credential strings in a list of serialized tokens.
KeysIn(list) == {KeyIn(data) : data \in list} \ {EmptyToken}

\* ------------------------------------------------ token management: create
Omitted == 0 - 1

\* Names are numbers; a new row's unused name is its id.
NamesOf(u) == {apiTokens[i].name : i \in {j \in DOMAIN apiTokens : apiTokens[j].user = u}}

\* As ActiveCount, counting the inactive rows too.
ActiveCount_AllRows(u) ==
    Cardinality({i \in DOMAIN apiTokens : apiTokens[i].user = u})

\* APIToken.objects.filter(user=..., is_active=True).count()
ActiveCount(u) ==
    Cardinality({i \in DOMAIN apiTokens :
                    apiTokens[i].user = u /\ apiTokens[i].is_active})

\* The row as first inserted by APIToken.save (token still '').
NewApiToken(u, name, expires_at, cpo) ==
    [user |-> u, name |-> name, token |-> EmptyToken, is_active |-> TRUE,
     expires_at |-> expires_at, last_used |-> None, can_manage_cart |-> TRUE,
     can_place_orders |-> cpo, can_manage_wishlist |-> TRUE]

\* APIToken.save on a row without token: insert or update the row, then
\* generate the JWT from the saved row and save the token field.
SaveWithNewToken(id, rec) ==
    LET tok == GenerateJwtToken(id, rec, nextRnd)
    IN  /\ apiTokens' = (id :> [rec EXCEPT !.token = tok]) @@ apiTokens
        /\ nextRnd' = nextRnd + 1

Reject(op, u) ==
    /\ response' = Resp(op, NoHeader, "rejected", u, NoAuth, {}, EmptyToken)
    /\ UNCHANGED <<cartVars, users, orders, inflight, now, storeVars, nextRnd, replaced>>

\* CreateAPITokenSerializer.create: expires_at from expires_in_days.
SerializerExpiresAt(days) ==
    IF days # Omitted /\ days # 0 THEN now + days ELSE None

\* POST /api/tokens/ : serializer validation, perform_create, create, save.
RestCreate(u, name, days, cpo, maxIds) ==
    /\ nextApiId <= maxIds
    /\ IF name \in NamesOf(u) \/ (days # Omitted /\ (days < 1 \/ days > 365))
       THEN Reject("create_invalid", u)
       ELSE IF ActiveCount(u) >= TokenLimit
       THEN Reject("create_limit", u)
       ELSE LET rec == NewApiToken(u, name, SerializerExpiresAt(days), cpo)
            IN  /\ SaveWithNewToken(nextApiId, rec)
                /\ nextApiId' = nextApiId + 1
                /\ response' = Resp("create", NoHeader, "ok", u, NoAuth, {},
                                    KeyIn(APITokenWithKeySerializer(
                                              nextApiId, apiTokens'[nextApiId])))
                /\ UNCHANGED <<cartVars, users, orders, inflight, now, userTokens,
                               nextUserTokenId, replaced>>

\* accounts.views.create_api_token (web).
WebCreate(u, name, days, maxIds) ==
    /\ nextApiId <= maxIds
    /\ IF name \in NamesOf(u)
       THEN Reject("create_invalid", u)
       ELSE IF ActiveCount(u) >= TokenLimit
       THEN Reject("create_limit", u)
       ELSE IF days # Omitted /\ days # 0 /\ (days < 1 \/ days > 365)
       THEN Reject("create_invalid", u)
       ELSE LET expires_at == IF days # Omitted /\ days # 0
                              THEN now + days ELSE None
                rec == NewApiToken(u, name, expires_at, TRUE)
            IN  /\ SaveWithNewToken(nextApiId, rec)
                /\ nextApiId' = nextApiId + 1
                /\ response' = Resp("create", NoHeader, "ok", u, NoAuth, {},
                                    apiTokens'[nextApiId].token)
                /\ UNCHANGED <<cartVars,
                               users, orders, inflight, now, userTokens, nextUserTokenId, replaced>>

\* ------------------------------------- token management: existing records
\* APIToken.objects.get(pk=pk, user=request.user) and the detail queryset.
Owns(u, pk) == pk \in DOMAIN apiTokens /\ apiTokens[pk].user = u

NotFound(op, u) ==
    /\ response' = Resp(op, NoHeader, "not_found", u, NoAuth, {}, EmptyToken)
    /\ UNCHANGED <<cartVars, users, orders, inflight, now, storeVars, nextRnd, replaced>>

\* The web views wrap get_object_or_404 in "try ... except Exception": the
\* Http404 of a missing or foreign id is answered with status 500 and
\* 'An error occurred'.
WebError(op, u) ==
    /\ response' = Resp(op, NoHeader, "error", u, NoAuth, {}, EmptyToken)
    /\ UNCHANGED <<cartVars, users, orders, inflight, now, storeVars, nextRnd, replaced>>

\* POST /api/tokens/<pk>/toggle/
Toggle(u, pk) ==
    IF ~Owns(u, pk) THEN NotFound("toggle", u)
    ELSE /\ apiTokens' = [apiTokens EXCEPT ![pk].is_active = ~@]
         /\ response' = Resp("toggle", NoHeader, "ok", u, NoAuth, {},
                             KeyIn(APITokenSerializer(pk, apiTokens'[pk])))
         /\ UNCHANGED <<cartVars,
                        users, orders, inflight, now, nextApiId, userTokens, nextUserTokenId,
                        nextRnd, replaced>>

\* PATCH /api/tokens/<pk>/ with APITokenSerializer: one writable field.
Update(u, pk, field, value) ==
    IF ~Owns(u, pk) THEN NotFound("update", u)
    ELSE /\ apiTokens' =
              IF field = "is_active"
              THEN [apiTokens EXCEPT ![pk].is_active = value]
              ELSE IF field = "expires_at"
              THEN [apiTokens EXCEPT ![pk].expires_at = value]
              ELSE IF field = "can_manage_cart"
              THEN [apiTokens EXCEPT ![pk].can_manage_cart = value]
              ELSE IF field = "can_manage_wishlist"
              THEN [apiTokens EXCEPT ![pk].can_manage_wishlist = value]
              ELSE [apiTokens EXCEPT ![pk].can_place_orders = value]
         /\ response' = Resp("update", NoHeader, "ok", u, NoAuth, {},
                             KeyIn(APITokenSerializer(pk, apiTokens'[pk])))
         /\ UNCHANGED <<cartVars,
                        users, orders, inflight, now, nextApiId, userTokens, nextUserTokenId,
                        nextRnd, replaced>>

\* GET /api/tokens/ : the rows of the requesting user, serialized.  The
\* response records one of the credential strings it contains, if any.
List(u) ==
    LET data == {APITokenSerializer(pk, apiTokens[pk]) :
                    pk \in {k \in DOMAIN apiTokens : apiTokens[k].user = u}}
    IN  /\ response' = Resp("list", NoHeader, "ok", u, NoAuth, {},
                            IF KeysIn(data) = {} THEN EmptyToken
                            ELSE CHOOSE k \in KeysIn(data) : TRUE)
        /\ UNCHANGED <<cartVars, users, orders, inflight, now, storeVars, nextRnd, replaced>>

\* GET /api/tokens/<pk>/
Retrieve(u, pk) ==
    IF ~Owns(u, pk) THEN NotFound("retrieve", u)
    ELSE /\ response' = Resp("retrieve", NoHeader, "ok", u, NoAuth, {},
                             KeyIn(APITokenSerializer(pk, apiTokens[pk])))
         /\ UNCHANGED <<cartVars, users, orders, inflight, now, storeVars, nextRnd, replaced>>

\* accounts.views.delete_api_token (web)
WebDelete(u, pk) ==
    IF ~Owns(u, pk) THEN WebError("delete", u)
    ELSE /\ apiTokens' = [i \in DOMAIN apiTokens \ {pk} |-> apiTokens[i]]
         /\ response' = Resp("delete", NoHeader, "ok", u, NoAuth, {}, EmptyToken)
         /\ UNCHANGED <<cartVars,
                        users, orders, inflight, now, nextApiId, userTokens, nextUserTokenId,
                        nextRnd, replaced>>

\* DELETE /api/tokens/<pk>/
Delete(u, pk) ==
    IF ~Owns(u, pk) THEN NotFound("delete", u)
    ELSE /\ apiTokens' = [i \in DOMAIN apiTokens \ {pk} |-> apiTokens[i]]
         /\ response' = Resp("delete", NoHeader, "ok", u, NoAuth, {}, EmptyToken)
         /\ UNCHANGED <<cartVars,
                        users, orders, inflight, now, nextApiId, userTokens, nextUserTokenId,
                        nextRnd, replaced>>

\* POST /api/tokens/<pk>/regenerate/ : token = '', save().  The response is
\* built with APITokenSerializer, which has no token field.
RestRegenerate(u, pk) ==
    IF ~Owns(u, pk) THEN NotFound("regenerate", u)
    ELSE /\ SaveWithNewToken(pk, [apiTokens[pk] EXCEPT !.token = EmptyToken])
         /\ replaced' = replaced \cup {apiTokens[pk].token}
         /\ response' = Resp("regenerate", NoHeader, "ok", u, NoAuth, {},
                             KeyIn(APITokenSerializer(pk, apiTokens'[pk])))
         /\ UNCHANGED <<cartVars,
                        users, orders, inflight, now, nextApiId, userTokens, nextUserTokenId>>

\* accounts.views.regenerate_api_token (web): the response carries the key.
WebRegenerate(u, pk) ==
    IF ~Owns(u, pk) THEN WebError("regenerate", u)
    ELSE /\ SaveWithNewToken(pk, [apiTokens[pk] EXCEPT !.token = EmptyToken])
         /\ replaced' = replaced \cup {apiTokens[pk].token}
         /\ response' = Resp("regenerate", NoHeader, "ok", u, NoAuth, {},
                             apiTokens'[pk].token)
         /\ UNCHANGED <<cartVars,
                        users, orders, inflight, now, nextApiId, userTokens, nextUserTokenId>>

\* ----------------------------------------------------------- UserAPIToken
\* The subscriptions_apitokenpackage rows (create_api_packages.py), by id.
Packages == <<[duration |-> "week"], [duration |-> "month"], [duration |-> "year"]>>

\* No order line: UserAPIToken.order_item is null.
NoOrderItem == [order |-> None, sku |-> ""]

\* The row UserAPIToken.create_from_package creates: expires_at and the
\* AccessToken (user id, jti, exp) it stores as token_key.
NewUserToken(u, package, order_item, rnd, t) ==
    LET days == GetDurationDays(Packages[package].duration)
    IN  [user |-> u, token_key |-> Cred(TRUE, None, u, rnd, None, t + days),
         package |-> package, order_item |-> order_item, status |-> "active",
         expires_at |-> t + days, api_calls_used |-> 0, last_used_at |-> None]

\* UserAPIToken.create_from_package(user, package) without an order line,
\* for the package of the given duration, while ids up to maxIds are left.
CreateFromPackageUpTo(u, duration, maxIds) ==
    LET package == CHOOSE p \in DOMAIN Packages : Packages[p].duration = duration
        rec == NewUserToken(u, package, NoOrderItem, nextRnd, now)
        token == rec.token_key
    IN  /\ nextUserTokenId <= maxIds
        /\ userTokens' = (nextUserTokenId :> rec) @@ userTokens
        /\ nextUserTokenId' = nextUserTokenId + 1
        /\ nextRnd' = nextRnd + 1
        /\ response' = Resp("issue", NoHeader, "ok", u, NoAuth, {}, token)
        /\ UNCHANGED <<cartVars, users, orders, inflight, now, apiTokens, nextApiId, replaced>>

CreateFromPackage(u, duration) ==
    CreateFromPackageUpTo(u, duration, MaxUserTokens)

\* UserAPITokenAdmin change form: status and expires_at are editable.
AdminEditUserToken(id, field, value) ==
    /\ id \in DOMAIN userTokens
    /\ userTokens' = IF field = "status"
                     THEN [userTokens EXCEPT ![id].status = value]
                     ELSE [userTokens EXCEPT ![id].expires_at = value]
    /\ response' = Resp("admin", NoHeader, "ok", Anonymous, NoAuth, {}, EmptyToken)
    /\ UNCHANGED <<cartVars, users, orders, inflight, now, apiTokens, nextApiId,
                   nextUserTokenId, nextRnd, replaced>>

\* ----------------------------------------------------------- the resolvers
\* LoginView.generate_jwt_token: user_id, iat and a 24 hour exp, no jti.
LoginJwt(u, t) == Cred(TRUE, None, u, None, None, t + LoginJwtDays)

\* UserAPIToken.objects.get(token_key=token, user=user, status='active')
ActiveUserTokens(token, user) ==
    {i \in DOMAIN userTokens : /\ userTokens[i].token_key = token
                               /\ userTokens[i].user = user
                               /\ userTokens[i].status = "active"}

\* JWTAuthentication.get_user after the claim is read: AuthenticationFailed
\* when no user has the id or the user's is_active is false.
UserIsActive(user) == user \in DOMAIN users /\ users[user].is_active

\* The legacy lookup both branches of APITokenAuthentication end with.
LegacyOutcome(token, otherwise) ==
    LET k == ValidateToken(token, apiTokens, now)
    IN  IF k # None
        THEN AuthOutcome("ok", apiTokens[k].user, ApiTokenAuth(k, apiTokens[k]),
                         {<<"apitoken", k>>})
        ELSE otherwise

\* APITokenAuthentication.authenticate from "token = auth_parts[1]" on: the
\* simplejwt decoding, the subscription lookup, the legacy lookup.
ResolveToken(token) ==
    IF UntypedTokenValid(token, now) /\ GetUserOk(token)
    THEN LET user == token.user_id
             m == ActiveUserTokens(token, user)
         IN  IF ~UserIsActive(user) THEN AuthFailed
             ELSE IF m # {}
             THEN LET i == CHOOSE i \in m : TRUE
                  IN  IF UserTokenIsValid(userTokens[i], now)
                      THEN AuthOutcome("ok", user, UserTokenAuth(i),
                                       {<<"usertoken", i>>})
                      ELSE AuthFailed
             ELSE LegacyOutcome(token, AuthOutcome("ok", user, JwtAuth, {}))
    ELSE LegacyOutcome(token, AuthFailed)

\* As APITokenAuthenticate, without the test of the scheme.
APITokenAuthenticate_AnyScheme(h) ==
    IF ~h.present THEN AuthNone
    ELSE IF NumParts(h) # 2 THEN AuthNone
    ELSE ResolveToken(h.creds[1])

\* api.authentication.APITokenAuthentication.authenticate
APITokenAuthenticate(h) ==
    IF ~h.present THEN AuthNone
    ELSE IF NumParts(h) # 2 \/ Lower(h.scheme) # "bearer" THEN AuthNone
    ELSE ResolveToken(h.creds[1])

\* accounts.authentication.APIKeyAuthentication.authenticate_credentials:
\* validate_token, which saves last_used, then the test of user.is_active.
AuthenticateCredentials(token) ==
    LET r == LegacyOutcome(token, AuthFailed)
    IN  IF r.outcome = "ok" /\ ~users[r.user].is_active
        THEN AuthOutcome("failed", Anonymous, NoAuth, r.writes)
        ELSE r

\* accounts.authentication.APIKeyAuthentication.authenticate
APIKeyAuthenticate(h) ==
    IF ~h.present THEN AuthNone
    ELSE IF NumParts(h) = 0 \/ Lower(h.scheme) # "bearer" THEN AuthNone
    ELSE IF NumParts(h) = 1 THEN AuthFailed
    ELSE IF NumParts(h) > 2 THEN AuthFailed
    ELSE AuthenticateCredentials(h.creds[1])

\* The saves an authenticate call makes: increment_usage on a UserAPIToken,
\* last_used on an APIToken.
ApplyWrites(writes) ==
    /\ userTokens' = [i \in DOMAIN userTokens |->
                        IF <<"usertoken", i>> \in writes
                        THEN IncrementUsage(userTokens[i], now)
                        ELSE userTokens[i]]
    /\ apiTokens' = [k \in DOMAIN apiTokens |->
                        IF <<"apitoken", k>> \in writes
                        THEN [apiTokens[k] EXCEPT !.last_used = now]
                        ELSE apiTokens[k]]

\* A request to a view whose authentication class is APITokenAuthentication,
\* while the usage counters it increments are below maxCalls.
AuthenticateUpTo(h, maxCalls) ==
    LET r == APITokenAuthenticate(h)
    IN  /\ \A w \in r.writes :
              w[1] = "usertoken" => userTokens[w[2]].api_calls_used < maxCalls
        /\ ApplyWrites(r.writes)
        /\ response' = Resp("authenticate", h, r.outcome, r.user, r.auth,
                            r.writes, EmptyToken)
        /\ UNCHANGED <<cartVars,
                       users, orders, inflight, now, nextApiId, nextUserTokenId, nextRnd, replaced>>

Authenticate(h) == AuthenticateUpTo(h, MaxCalls)

\* A request to a view whose authentication class is APIKeyAuthentication.
AuthenticateKey(h) ==
    LET r == APIKeyAuthenticate(h)
    IN  /\ ApplyWrites(r.writes)
        /\ response' = Resp("authenticate_key", h, r.outcome, r.user, r.auth,
                            r.writes, EmptyToken)
        /\ UNCHANGED <<cartVars,
                       users, orders, inflight, now, nextApiId, nextUserTokenId, nextRnd, replaced>>

\* ------------------------------------------------------------------- Next
ApiIds == 1..MaxApiTokens
UserTokenIds == 1..MaxUserTokens

\* The credentials of the rows in the two stores.
Stored ==
    {apiTokens[i].token : i \in DOMAIN apiTokens}
        \cup {userTokens[i].token_key : i \in DOMAIN userTokens}

\* The credentials a client can hold: the stored ones, those a regenerate
\* replaced, a login JWT of any user, and a string that is no signed JWT.
Presentable ==
    Stored \cup replaced \cup {LoginJwt(u, now) : u \in Users} \cup {Garbage}

\* Well-formed bearer headers, one per credential a client can hold.
BearerHeaders == {Header(TRUE, "Bearer", <<c>>) : c \in Presentable}

\* Every shape of header: absent, blank, scheme only, other scheme, other
\* case, extra part.
Headers ==
    {NoHeader, Header(TRUE, "", <<>>), Header(TRUE, "Bearer", <<>>)}
        \cup BearerHeaders
        \cup {Header(TRUE, "bearer", <<c>>) : c \in Stored}
        \cup {Header(TRUE, "Token", <<c>>) : c \in Stored \cup {Garbage}}
        \cup {Header(TRUE, "Bearer", <<c, c>>) : c \in Stored \cup {Garbage}}

\* Token lifecycle with resolution of current and replaced credentials.
Create ==
    \E u \in Users, days \in {Omitted, 0, 1} :
        /\ nextRnd <= MaxCreds
        /\ \E name \in NamesOf(u) \cup {nextApiId} :
              \/ RestCreate(u, name, days, TRUE, MaxApiTokens)
              \/ WebCreate(u, name, days, MaxApiTokens)

Regenerate ==
    \E u \in Users, pk \in ApiIds :
        /\ nextRnd <= MaxCreds
        /\ RestRegenerate(u, pk) \/ WebRegenerate(u, pk)

Modify ==
    \E u \in Users, pk \in ApiIds :
        \/ Toggle(u, pk)
        \/ Delete(u, pk)
        \/ WebDelete(u, pk)
        \/ \E v \in BOOLEAN : Update(u, pk, "is_active", v)
        \/ \E v \in {None, 1} : Update(u, pk, "expires_at", v)

ResolveBearer ==
    \E h \in BearerHeaders : Authenticate(h) \/ AuthenticateKey(h)

Read ==
    \E u \in Users :
        \/ List(u)
        \/ \E pk \in ApiIds : Retrieve(u, pk)

Next == Tick \/ Create \/ Regenerate \/ Modify \/ ResolveBearer \/ Read

\* The token management endpoints and their responses.
NextManage == Create \/ Regenerate \/ Modify \/ Read

SpecManage == Init /\ [][NextManage]_vars

Spec == Init /\ [][Next]_vars

\* Resolution of every header shape against both token stores.
Subscribe ==
    \/ \E u \in Users : nextRnd <= MaxCreds /\ CreateFromPackage(u, "week")
    \/ \E id \in UserTokenIds :
          \/ \E v \in {"active", "expired", "cancelled"} :
                AdminEditUserToken(id, "status", v)
          \/ \E v \in {1} : AdminEditUserToken(id, "expires_at", v)

CreateLegacy ==
    \E u \in Users, days \in {Omitted, 1} :
        /\ nextRnd <= MaxCreds
        /\ RestCreate(u, nextApiId, days, TRUE, MaxApiTokens)

ToggleLegacy == \E u \in Users, pk \in ApiIds : Toggle(u, pk)

Resolve ==
    \E h \in Headers : Authenticate(h) \/ AuthenticateKey(h)

NextResolve == Tick \/ CreateLegacy \/ ToggleLegacy \/ Subscribe \/ Resolve

SpecResolve == Init /\ [][NextResolve]_vars

\* ------------------------------------------------- the active-token limit
\* One owner creating, toggling and updating up to MaxCapIds tokens.
CapUser == CHOOSE u \in Users : TRUE
CapIds == 1..MaxCapIds

CapCreate ==
    \E name \in {1, nextApiId} :
        \/ RestCreate(CapUser, name, Omitted, TRUE, MaxCapIds)
        \/ WebCreate(CapUser, name, Omitted, MaxCapIds)

CapToggle == \E pk \in CapIds : Toggle(CapUser, pk)

CapUpdate == \E pk \in CapIds, v \in BOOLEAN : Update(CapUser, pk, "is_active", v)

NextCap == CapCreate \/ CapToggle \/ CapUpdate

SpecCap == Init /\ [][NextCap]_vars

\* ---------------------------------------------------- the permission gate
\* As CanPlaceOrders, without the test of the token's flag.
CanPlaceOrders_IgnoreFlag(user, auth) ==
    IF user = Anonymous THEN FALSE ELSE TRUE

\* accounts.permissions.CanPlaceOrders.has_permission on a request with the
\* given user and auth; only an APIToken has a can_place_orders attribute.
CanPlaceOrders(user, auth) ==
    IF user = Anonymous THEN FALSE
    ELSE IF auth.kind = "apitoken" THEN auth.can_place_orders
    ELSE TRUE

GateOutcome(user, auth) ==
    IF CanPlaceOrders(user, auth) THEN "allowed" ELSE "denied"

\* accounts.permissions.CanManageCart.has_permission
CanManageCart(user, auth) ==
    IF user = Anonymous THEN FALSE
    ELSE IF auth.kind = "apitoken" THEN auth.can_manage_cart
    ELSE TRUE

\* accounts.permissions.CanManageWishlist.has_permission
CanManageWishlist(user, auth) ==
    IF user = Anonymous THEN FALSE
    ELSE IF auth.kind = "apitoken" THEN auth.can_manage_wishlist
    ELSE TRUE

\* The gate of a cart or wishlist operation.
ManageOutcome(op, user, auth) ==
    IF op = "manage_cart"
    THEN IF CanManageCart(user, auth) THEN "allowed" ELSE "denied"
    ELSE IF CanManageWishlist(user, auth) THEN "allowed" ELSE "denied"

\* APITokenPackage: the feature fields are includes_real_time_data,
\* includes_historical_data and includes_analytics; no field enables cart,
\* order or wishlist operations for the tokens of a package.
PackageEnables(op) == FALSE

\* An order-placement request carrying an Authorization header: DRF runs
\* APITokenAuthentication (401 on failure, anonymous on None), then the gate.
PlaceOrderWithHeader(h) ==
    LET r == APITokenAuthenticate(h)
    IN  /\ \A w \in r.writes :
              w[1] = "usertoken" => userTokens[w[2]].api_calls_used < MaxCalls
        /\ ApplyWrites(r.writes)
        /\ response' = Resp("place_order", h,
                            IF r.outcome = "failed" THEN "unauthenticated"
                            ELSE GateOutcome(r.user, r.auth),
                            r.user, r.auth, r.writes, EmptyToken)
        /\ UNCHANGED <<cartVars,
                       users, orders, inflight, now, nextApiId, nextUserTokenId, nextRnd, replaced>>

\* A mutating cart or wishlist request carrying an Authorization header.
ManageWithHeader(op, h) ==
    LET r == APITokenAuthenticate(h)
    IN  /\ \A w \in r.writes :
              w[1] = "usertoken" => userTokens[w[2]].api_calls_used < MaxCalls
        /\ ApplyWrites(r.writes)
        /\ response' = Resp(op, h,
                            IF r.outcome = "failed" THEN "unauthenticated"
                            ELSE ManageOutcome(op, r.user, r.auth),
                            r.user, r.auth, r.writes, EmptyToken)
        /\ UNCHANGED <<cartVars,
                       users, orders, inflight, now, nextApiId, nextUserTokenId, nextRnd, replaced>>

\* The same request from a browser session of user u (Anonymous: no login).
PlaceOrderWithSession(u) ==
    /\ response' = Resp("place_order", NoHeader, GateOutcome(u, NoAuth),
                        u, NoAuth, {}, EmptyToken)
    /\ UNCHANGED <<cartVars, users, orders, inflight, now, storeVars, nextRnd, replaced>>

GateCreate ==
    \E u \in Users, cpo \in BOOLEAN :
        /\ nextRnd <= MaxCreds
        /\ RestCreate(u, nextApiId, Omitted, cpo, MaxApiTokens)

GateUpdate ==
    \E u \in Users, pk \in ApiIds, v \in BOOLEAN :
        Update(u, pk, "can_place_orders", v)

GateSubscribe ==
    \E u \in Users : nextRnd <= MaxCreds /\ CreateFromPackage(u, "week")

GateRequest ==
    \/ \E h \in BearerHeaders \cup {NoHeader} : PlaceOrderWithHeader(h)
    \/ \E u \in Users \cup {Anonymous} : PlaceOrderWithSession(u)

NextGate == GateCreate \/ GateUpdate \/ GateSubscribe \/ GateRequest

SpecGate == Init /\ [][NextGate]_vars

\* The three gates on requests with flag-based and package-bound tokens.
GatedOps == {"manage_cart", "place_order", "manage_wishlist"}

FlagUpdate ==
    \E u \in Users, pk \in ApiIds, v \in BOOLEAN :
        \E f \in {"can_manage_cart", "can_place_orders", "can_manage_wishlist"} :
            Update(u, pk, f, v)

GatedRequest ==
    \E h \in BearerHeaders \cup {NoHeader} :
        \/ PlaceOrderWithHeader(h)
        \/ \E op \in GatedOps \ {"place_order"} : ManageWithHeader(op, h)

NextGates == GateCreate \/ FlagUpdate \/ GateSubscribe \/ GatedRequest

SpecGates == Init /\ [][NextGates]_vars

\* ------------------------------------------------------- object ownership
\* rest_framework.permissions.SAFE_METHODS and the other HTTP methods.
SafeMethods == {"GET", "HEAD", "OPTIONS"}
Methods == SafeMethods \cup {"POST", "PUT", "PATCH", "DELETE"}

\* accounts.permissions.IsOwnerOrAdmin.has_object_permission for a request
\* of reqUser on an object of objUser.  An unauthenticated request.user is
\* django's AnonymousUser, which is truthy and has no is_admin_user: the call
\* raises AttributeError.
IsOwnerOrAdmin(method, reqUser, objUser) ==
    IF method \in SafeMethods THEN "allowed"
    ELSE IF objUser = reqUser THEN "allowed"
    ELSE IF reqUser = Anonymous THEN "error"
    ELSE IF IsAdminUser(users[reqUser]) THEN "allowed"
    ELSE "denied"

\* A view with permission class IsOwnerOrAdmin checks a request of reqUser
\* on the token row pk.
HasObjectPermission(method, reqUser, pk) ==
    /\ pk \in DOMAIN apiTokens
    /\ response' = Resp("has_object_permission", NoHeader,
                        IsOwnerOrAdmin(method, reqUser, apiTokens[pk].user),
                        reqUser, NoAuth, {}, EmptyToken)
    /\ UNCHANGED <<cartVars, users, orders, inflight, now, storeVars, nextRnd, replaced>>

\* The accounts exist with any role; they own tokens and send requests.
InitOwner ==
    /\ users \in [Users -> UserRows]
    /\ orders = <<>>
    /\ inflight = [w \in Workers |-> Idle]
    /\ now = 1
    /\ apiTokens = <<>>
    /\ nextApiId = 1
    /\ userTokens = <<>>
    /\ nextUserTokenId = 1
    /\ nextRnd = 1
    /\ replaced = {}
    /\ carts = {}
    /\ cartItems = <<>>
    /\ nextCartItemId = 1
    /\ sessionItems = <<>>
    /\ cartflight = [w \in Workers |-> NoRequest]
    /\ response = Resp("init", NoHeader, "none", Anonymous, NoAuth, {}, EmptyToken)

OwnerCreate ==
    \E u \in Users :
        /\ nextRnd <= MaxCreds
        /\ RestCreate(u, nextApiId, Omitted, TRUE, MaxApiTokens)

OwnerRequest ==
    \E m \in Methods, r \in Users \cup {Anonymous}, pk \in ApiIds :
        HasObjectPermission(m, r, pk)

NextOwner == OwnerCreate \/ OwnerRequest

SpecOwner == InitOwner /\ [][NextOwner]_vars

\* ------------------------------------------------- paid orders and tokens
\* Product SKUs: a product that is no package, the product of package 1, and
\* a product whose SKU names a package that does not exist.
Skus == {"WIDGET", "API-1", "API-9"}

\* The order in which instance.items.all() yields the lines.
ItemOrder == <<"API-1", "API-9", "WIDGET">>

\* item.product.sku.startswith('API-')
IsApiSku(sku) == sku \in {"API-1", "API-9"}

\* item.product.sku.split('-')[1], as APITokenPackage.objects.get reads it.
PackageIdOf(sku) == IF sku = "API-1" THEN 1 ELSE 9

\* item.api_tokens: the UserAPIToken rows whose order_item is the line.
LinkedTokens(store, o, sku) ==
    {i \in DOMAIN store : store[i].order_item = [order |-> o, sku |-> sku]}

\* The userapitoken table with its id and jti sources, as a handler sees and
\* leaves it.
TokenTable(store, nextId, rnd) == [store |-> store, nextId |-> nextId, rnd |-> rnd]

\* for _ in range(item.quantity): UserAPIToken.create_from_package(...)
RECURSIVE MintTokens(_, _, _, _, _)
MintTokens(st, u, package, item, n) ==
    IF n = 0 THEN st
    ELSE MintTokens(
            TokenTable((st.nextId :> NewUserToken(u, package, item, st.rnd, now))
                           @@ st.store,
                       st.nextId + 1, st.rnd + 1),
            u, package, item, n - 1)

\* As HandleItem, without the test of item.api_tokens.exists().
HandleItem_NoExistsCheck(ord, o, sku, st) ==
    IF sku \notin DOMAIN ord.items \/ ~IsApiSku(sku) THEN st
    ELSE IF PackageIdOf(sku) \notin DOMAIN Packages THEN st
    ELSE MintTokens(st, ord.user, PackageIdOf(sku),
                    [order |-> o, sku |-> sku], ord.items[sku])

\* The body of the loop of create_api_tokens_on_payment for one line.
HandleItem(ord, o, sku, st) ==
    IF sku \notin DOMAIN ord.items \/ ~IsApiSku(sku) THEN st
    ELSE IF PackageIdOf(sku) \notin DOMAIN Packages THEN st
    ELSE IF LinkedTokens(st.store, o, sku) # {} THEN st
    ELSE MintTokens(st, ord.user, PackageIdOf(sku),
                    [order |-> o, sku |-> sku], ord.items[sku])

RECURSIVE HandleItems(_, _, _, _)
HandleItems(ord, o, k, st) ==
    IF k > Len(ItemOrder) THEN st
    ELSE HandleItems(ord, o, k + 1, HandleItem(ord, o, ItemOrder[k], st))

\* subscriptions.signals.create_api_tokens_on_payment, the post_save receiver
\* of Order, on the saved order row ord with id o.
CreateApiTokensOnPayment(ord, o, created, st) ==
    IF ~created /\ ord.payment_status = "paid"
    THEN HandleItems(ord, o, 1, st)
    ELSE st

\* Order.save followed by the post_save receiver.
SaveOrder(o, ord, created) ==
    LET st == CreateApiTokensOnPayment(
                  ord, o, created, TokenTable(userTokens, nextUserTokenId, nextRnd))
    IN  /\ userTokens' = st.store
        /\ nextUserTokenId' = st.nextId
        /\ nextRnd' = st.rnd

\* The carts: a non-empty set of products, one unit of each but up to
\* MaxQuantity of the product of the existing package.
Carts ==
    UNION {{[sku \in S |-> IF sku = "API-1" THEN q ELSE 1] : q \in 1..MaxQuantity} :
              S \in (SUBSET Skus) \ {{}}}

\* CheckoutSuccessView.get for a paid Stripe session of user u with cart:
\* Order.objects.create with payment_status 'paid' (post_save with created
\* true, before any line exists), then one OrderItem per cart line.
Checkout(u, cart) ==
    LET o == Len(orders) + 1
        created == [user |-> u, payment_status |-> "paid",
                    items |-> <<>>, deliveries |-> 0]
    IN  /\ Len(orders) < MaxOrders
        /\ SaveOrder(o, created, TRUE)
        /\ orders' = Append(orders, [created EXCEPT !.items = cart])
        /\ response' = Resp("checkout", NoHeader, "ok", u, NoAuth, {}, EmptyToken)
        /\ UNCHANGED <<cartVars, users, inflight, now, apiTokens, nextApiId, replaced>>

\* StripeWebhookView._handle_payment_success for the payment intent of order
\* o.  deliveries counts the post_save signals of the order while paid.
HandlePaymentSuccess(o) ==
    /\ o \in DOMAIN orders
    /\ IF orders[o].payment_status # "paid"
       THEN /\ orders[o].deliveries < MaxDeliveries
            /\ orders' = [orders EXCEPT ![o].payment_status = "paid",
                                        ![o].deliveries = @ + 1]
            /\ SaveOrder(o, orders'[o], FALSE)
       ELSE UNCHANGED <<orders, userTokens, nextUserTokenId, nextRnd>>
    /\ response' = Resp("payment_succeeded", NoHeader, "ok", Anonymous, NoAuth,
                        {}, EmptyToken)
    /\ UNCHANGED <<cartVars, users, inflight, now, apiTokens, nextApiId, replaced>>

\* StripeWebhookView._handle_payment_failed for the payment intent of order o.
HandlePaymentFailed(o) ==
    /\ o \in DOMAIN orders
    /\ orders' = [orders EXCEPT ![o].payment_status = "failed"]
    /\ SaveOrder(o, orders'[o], FALSE)
    /\ response' = Resp("payment_failed", NoHeader, "ok", Anonymous, NoAuth,
                        {}, EmptyToken)
    /\ UNCHANGED <<cartVars, users, inflight, now, apiTokens, nextApiId, replaced>>

OrderIds == 1..MaxOrders

PlaceOrder == \E u \in Users, cart \in Carts : Checkout(u, cart)

PaymentSucceeded == \E o \in OrderIds : HandlePaymentSuccess(o)

PaymentFailed == \E o \in OrderIds : HandlePaymentFailed(o)

NextOrder == PlaceOrder \/ PaymentSucceeded \/ PaymentFailed

SpecOrder == Init /\ [][NextOrder]_vars

\* Stripe delivers payment_intent.succeeded for every order it was paid for.
SpecOrderLive ==
    Init /\ [][NextOrder]_vars /\ \A o \in OrderIds : WF_vars(HandlePaymentSuccess(o))

\* ------------------------------------------- concurrent usage accounting
\* A request of worker w reaches UserAPIToken.objects.get in authenticate:
\* the row of the presented credential is loaded into a model instance and
\* is_valid holds.
LoadForUsage(w, h) ==
    LET r == APITokenAuthenticate(h)
    IN  /\ inflight[w].op = "idle"
        /\ r.outcome = "ok"
        /\ r.auth.kind = "usertoken"
        /\ userTokens[r.auth.id].api_calls_used < MaxUsage
        /\ inflight' = [inflight EXCEPT ![w] =
                           [op |-> "increment", id |-> r.auth.id,
                            api_calls_used |-> userTokens[r.auth.id].api_calls_used,
                            instance |-> <<>>]]
        /\ UNCHANGED <<cartVars, users, orders, now, storeVars, nextRnd, replaced, response>>

\* UserAPIToken.increment_usage on the loaded instance: the counter of the
\* instance plus one and last_used_at are written (update_fields).
SaveUsage(w) ==
    LET i == inflight[w].id
    IN  /\ inflight[w].op = "increment"
        /\ userTokens' = [userTokens EXCEPT
                             ![i].api_calls_used = inflight[w].api_calls_used + 1,
                             ![i].last_used_at = now]
        /\ inflight' = [inflight EXCEPT ![w] = Idle]
        /\ response' = Resp("authenticate", NoHeader, "ok", userTokens[i].user,
                            UserTokenAuth(i), {<<"usertoken", i>>}, EmptyToken)
        /\ UNCHANGED <<cartVars, users, orders, now, apiTokens, nextApiId, nextUserTokenId,
                       nextRnd, replaced>>

\* The monthly job loads a token.
LoadForReset(w, i) ==
    /\ inflight[w].op = "idle"
    /\ i \in DOMAIN userTokens
    /\ inflight' = [inflight EXCEPT ![w] =
                       [op |-> "reset", id |-> i,
                        api_calls_used |-> userTokens[i].api_calls_used,
                        instance |-> <<>>]]
    /\ UNCHANGED <<cartVars, users, orders, now, storeVars, nextRnd, replaced, response>>

\* UserAPIToken.reset_monthly_usage on the loaded instance.
SaveReset(w) ==
    LET i == inflight[w].id
    IN  /\ inflight[w].op = "reset"
        /\ userTokens' = [userTokens EXCEPT ![i].api_calls_used = 0]
        /\ inflight' = [inflight EXCEPT ![w] = Idle]
        /\ response' = Resp("reset", NoHeader, "ok", Anonymous, NoAuth, {},
                            EmptyToken)
        /\ UNCHANGED <<cartVars, users, orders, now, apiTokens, nextApiId, nextUserTokenId,
                       nextRnd, replaced>>

UsageIssue ==
    \E u \in Users : nextRnd <= MaxCreds /\ CreateFromPackage(u, "week")

UsageLoad == \E w \in Workers, h \in BearerHeaders : LoadForUsage(w, h)

UsageSave == \E w \in Workers : SaveUsage(w)

ResetLoad == \E w \in Workers, i \in UserTokenIds : LoadForReset(w, i)

ResetSave == \E w \in Workers : SaveReset(w)

NextUsage == UsageIssue \/ UsageLoad \/ UsageSave \/ ResetLoad \/ ResetSave

SpecUsage == Init /\ [][NextUsage]_vars

\* ------------------------------------------------ concurrent APIToken.save
\* As TokenTaken, without the unique constraint on the column.
TokenTaken_NoConstraint(store, id, token) == FALSE

\* unique=True on APIToken.token: writing token into row id violates the
\* constraint when another row holds the same string.
TokenTaken(store, id, token) ==
    \E j \in DOMAIN store : j # id /\ store[j].token = token

\* A request fails with an exception after its instance was loaded.
FailSave(w, u, outcome) ==
    /\ inflight' = [inflight EXCEPT ![w] = Idle]
    /\ response' = Resp("save", NoHeader, outcome, u, NoAuth, {}, EmptyToken)
    /\ UNCHANGED <<cartVars, users, orders, now, storeVars, nextRnd, replaced>>

\* POST /api/tokens/ up to the first super().save() of APIToken.save: the
\* validations, then the INSERT of the row with token ''.
BeginCreate(w, u, name, days) ==
    /\ inflight[w].op = "idle"
    /\ nextApiId <= MaxSaveIds
    /\ name \notin NamesOf(u)
    /\ ActiveCount(u) < TokenLimit
    /\ LET rec == NewApiToken(u, name, SerializerExpiresAt(days), TRUE)
       IN  IF TokenTaken(apiTokens, nextApiId, EmptyToken)
           THEN FailSave(w, u, "integrity_error")
           ELSE /\ apiTokens' = (nextApiId :> rec) @@ apiTokens
                /\ nextApiId' = nextApiId + 1
                /\ inflight' = [inflight EXCEPT ![w] =
                                   [op |-> "generate", id |-> nextApiId,
                                    api_calls_used |-> 0, instance |-> <<rec>>]]
                /\ response' = Resp("save", NoHeader, "inserted", u, NoAuth, {},
                                    EmptyToken)
                /\ UNCHANGED <<cartVars, users, orders, now, userTokens, nextUserTokenId,
                               nextRnd, replaced>>

\* A regenerate request reaches APIToken.objects.get(pk=pk, user=...) and
\* sets token = '' on the instance.
LoadForRegenerate(w, u, pk) ==
    /\ inflight[w].op = "idle"
    /\ Owns(u, pk)
    /\ inflight' = [inflight EXCEPT ![w] =
                       [op |-> "clear", id |-> pk, api_calls_used |-> 0,
                        instance |-> <<[apiTokens[pk] EXCEPT !.token = EmptyToken]>>]]
    /\ UNCHANGED <<cartVars, users, orders, now, storeVars, nextRnd, replaced, response>>

\* The first super().save() of APIToken.save in a regenerate: the UPDATE of
\* every field of the row from the instance, token '' included.
SaveCleared(w) ==
    LET pk == inflight[w].id
        inst == inflight[w].instance[1]
    IN  /\ inflight[w].op = "clear"
        /\ IF pk \notin DOMAIN apiTokens
              THEN FailSave(w, inst.user, "database_error")
           ELSE IF TokenTaken(apiTokens, pk, EmptyToken)
              THEN FailSave(w, inst.user, "integrity_error")
           ELSE /\ apiTokens' = [apiTokens EXCEPT ![pk] = inst]
                /\ replaced' = replaced \cup {apiTokens[pk].token}
                /\ inflight' = [inflight EXCEPT ![w].op = "generate"]
                /\ response' = Resp("save", NoHeader, "cleared", inst.user, NoAuth,
                                    {}, EmptyToken)
                /\ UNCHANGED <<cartVars, users, orders, now, nextApiId, userTokens,
                               nextUserTokenId, nextRnd>>

\* The rest of APIToken.save: generate_jwt_token from the instance and the
\* UPDATE of the token column.
FinishSave(w) ==
    LET pk == inflight[w].id
        inst == inflight[w].instance[1]
        tok == GenerateJwtToken(pk, inst, nextRnd)
    IN  /\ inflight[w].op = "generate"
        /\ IF pk \notin DOMAIN apiTokens
              THEN FailSave(w, inst.user, "database_error")
           ELSE IF TokenTaken(apiTokens, pk, tok)
              THEN FailSave(w, inst.user, "integrity_error")
           ELSE /\ apiTokens' = [apiTokens EXCEPT ![pk].token = tok]
                /\ nextRnd' = nextRnd + 1
                /\ inflight' = [inflight EXCEPT ![w] = Idle]
                /\ response' = Resp("save", NoHeader, "ok", inst.user, NoAuth, {},
                                    tok)
                /\ UNCHANGED <<cartVars, users, orders, now, nextApiId, userTokens,
                               nextUserTokenId, replaced>>

\* The saves still to be finished and those finished stay within MaxSaves.
SavesLeft ==
    nextRnd + Cardinality({w \in Workers : inflight[w].op # "idle"}) <= MaxSaves

SaveCreate ==
    \E w \in Workers, u \in Users :
        SavesLeft /\ BeginCreate(w, u, nextApiId, Omitted)

SaveRegenerate ==
    \E w \in Workers, u \in Users, pk \in 1..MaxSaveIds :
        SavesLeft /\ LoadForRegenerate(w, u, pk)

SaveStep == \E w \in Workers : SaveCleared(w) \/ FinishSave(w)

SaveIssue ==
    \E u \in Users :
        nextRnd <= MaxSaves /\ CreateFromPackageUpTo(u, "week", MaxSaveIds)

NextSave == SaveCreate \/ SaveRegenerate \/ SaveStep \/ SaveIssue

SpecSave == Init /\ [][NextSave]_vars

\* ------------------------------------------------------------ claims C1-C7
IsBearer(h) == h.present /\ NumParts(h) >= 1 /\ Lower(h.scheme) = "bearer"

\* The step is a request resolved by APITokenAuthentication, respectively by
\* APIKeyAuthentication, on the header that response' records.
AuthStep == response'.op = "authenticate" /\ Authenticate(response'.header)
KeyStep == response'.op = "authenticate_key" /\ AuthenticateKey(response'.header)

\* The credential of a header with exactly one credential part.
Presented(h) == h.creds[1]

\* C1: once a regenerate has replaced a credential, a resolver presented
\* with that credential does not authenticate it.
C1_ReplacedCredentialFails ==
    [][(/\ AuthStep \/ KeyStep
        /\ NumParts(response'.header) = 2
        /\ Presented(response'.header) \in replaced)
          => response'.outcome # "ok"]_vars

\* Whether presenting credential c as a bearer token authenticates now.
Resolves(c) == APITokenAuthenticate(Header(TRUE, "Bearer", <<c>>)).outcome = "ok"

\* C2: for a regenerated record that is active and unexpired, exactly one of
\* a replaced credential and the stored credential resolves.
C2_ExactlyOneResolves ==
    \A c \in replaced :
        (/\ c.api_key_id \in DOMAIN apiTokens
         /\ ApiTokenIsValid(apiTokens[c.api_key_id], now))
            => (Resolves(c) # Resolves(apiTokens[c.api_key_id].token))

\* The credential c is a valid signed token of user U and the token_key of a
\* cancelled or expired UserAPIToken of U.
RevokedSubscription(c) ==
    /\ UntypedTokenValid(c, now)
    /\ \E i \in DOMAIN userTokens :
          /\ userTokens[i].token_key = c
          /\ userTokens[i].user = c.user_id
          /\ userTokens[i].status \in {"cancelled", "expired"}

\* C3: a credential that is a valid signed token of user U and the token_key
\* of a cancelled or expired UserAPIToken of U is never authenticated.
C3_RevokedSubscriptionFails ==
    [][(/\ AuthStep
        /\ IsBearer(response'.header) /\ NumParts(response'.header) = 2
        /\ RevokedSubscription(Presented(response'.header)))
          => response'.outcome = "failed"]_vars

\* The credential c belongs to a row, of either store, whose expires_at has
\* passed.
PastExpiry(c) ==
    \/ \E k \in DOMAIN apiTokens :
          /\ apiTokens[k].token = c
          /\ apiTokens[k].expires_at # None
          /\ apiTokens[k].expires_at < now
    \/ \E i \in DOMAIN userTokens :
          /\ userTokens[i].token_key = c
          /\ userTokens[i].expires_at < now

\* C4: resolving the credential of a row whose expires_at has passed fails,
\* whatever the row's status or is_active.
C4_PastExpiryFails ==
    [][(/\ AuthStep
        /\ IsBearer(response'.header) /\ NumParts(response'.header) = 2
        /\ PastExpiry(Presented(response'.header)))
          => response'.outcome = "failed"]_vars

\* C5: an authenticate call that returns an identity has saved the usage
\* marker of exactly one row.
C5_ExactlyOneMarker ==
    [][(AuthStep /\ response'.outcome = "ok")
          => Cardinality(response'.writes) = 1]_vars

\* C6: with a header whose first part is the Bearer scheme, neither resolver
\* returns None.
C6_BearerNeverAnonymous ==
    [][((AuthStep \/ KeyStep) /\ IsBearer(response'.header))
          => response'.outcome # "none"]_vars

\* The header is absent, or its first part is another scheme than Bearer.
NoBearer(h) == ~h.present \/ (NumParts(h) >= 1 /\ ~IsBearer(h))

ActiveRows(u) ==
    {i \in DOMAIN apiTokens : apiTokens[i].user = u /\ apiTokens[i].is_active}

\* C8: with TokenLimit active tokens a create call fails with the limit error
\* and adds no row; once a toggle has left TokenLimit - 1 active, the create
\* call succeeds and adds exactly one row.
C8_LimitThenRoom ==
    [][(\/ RestCreate(CapUser, nextApiId, Omitted, TRUE, MaxCapIds)
        \/ WebCreate(CapUser, nextApiId, Omitted, MaxCapIds))
              => /\ Cardinality(ActiveRows(CapUser)) >= TokenLimit
                    => response'.op = "create_limit" /\ apiTokens' = apiTokens
                 /\ (/\ response.op = "toggle"
                     /\ Cardinality(ActiveRows(CapUser)) = TokenLimit - 1)
                    => /\ response'.op = "create"
                       /\ DOMAIN apiTokens' = DOMAIN apiTokens \cup {nextApiId}
                       /\ nextApiId \notin DOMAIN apiTokens
                       /\ \A i \in DOMAIN apiTokens : apiTokens'[i] = apiTokens[i]]_vars

\* The create that follows the deactivation has made the eleventh row.
C8_Witness ==
    /\ response.op = "create"
    /\ Cardinality(DOMAIN apiTokens) = TokenLimit + 1
    /\ Cardinality(ActiveRows(CapUser)) = TokenLimit

\* C9: no user ever owns more than TokenLimit active tokens.
C9_AtMostLimitActive ==
    \A u \in Users : Cardinality(ActiveRows(u)) <= TokenLimit

\* C10: the order-placement gate denies an anonymous request, denies a
\* request whose auth is an APIToken with can_place_orders false, and allows
\* a session request of an authenticated user.
C10_PlaceOrdersGate ==
    (response.op = "place_order" /\ response.outcome # "unauthenticated")
        => /\ response.user = Anonymous => response.outcome = "denied"
           /\ (/\ response.user # Anonymous
               /\ response.auth.kind = "apitoken"
               /\ ~response.auth.can_place_orders)
                  => response.outcome = "denied"
           /\ (response.user # Anonymous /\ response.auth.kind = "none")
                  => response.outcome = "allowed"

\* A token of user U without the flag was presented and refused.
C10_Witness ==
    /\ response.op = "place_order"
    /\ response.outcome = "denied"
    /\ response.user # Anonymous
    /\ response.auth.kind = "apitoken"
    /\ apiTokens[response.auth.id].user = response.user
\* --------------------------------------------------------- claims C11-C20
\* C11: a gated request authenticated by a package-bound token is permitted
\* only if the token's package enables the operation.
C11_PackageToggleGate ==
    (/\ response.op \in GatedOps
     /\ response.auth.kind = "usertoken"
     /\ response.outcome = "allowed")
        => PackageEnables(response.op)

\* C12: on an owned object, has_object_permission permits a request, of any
\* method, exactly when the requester is the owner or an admin, and denies
\* every other requester, an unauthenticated one included, without an error.
C12_OwnerOrAdminOnly ==
    [][\A m \in Methods, r \in Users \cup {Anonymous}, pk \in ApiIds :
          HasObjectPermission(m, r, pk)
              => response'.outcome =
                    IF \/ apiTokens[pk].user = r
                       \/ (r # Anonymous /\ IsAdminUser(users[r]))
                    THEN "allowed" ELSE "denied"]_vars

\* The line sku of order o is the product of an existing package.
PackageLine(o, sku) ==
    /\ o \in DOMAIN orders
    /\ sku \in DOMAIN orders[o].items
    /\ IsApiSku(sku)
    /\ PackageIdOf(sku) \in DOMAIN Packages

\* Exactly quantity tokens are linked to the line, each of the order's user
\* and of the line's package.
LineHasItsTokens(o, sku) ==
    /\ Cardinality(LinkedTokens(userTokens, o, sku)) = orders[o].items[sku]
    /\ \A i \in LinkedTokens(userTokens, o, sku) :
          /\ userTokens[i].user = orders[o].user
          /\ userTokens[i].package = PackageIdOf(sku)

\* C13: once the order-paid signal of an order has been delivered two or more
\* times, every package line of quantity q has exactly q tokens linked to it,
\* each of the order's user and of that package.
C13_RedeliveryKeepsQuantity ==
    \A o \in OrderIds, sku \in Skus :
        (PackageLine(o, sku) /\ orders[o].deliveries >= 2)
            => LineHasItsTokens(o, sku)

\* The signal of an order with a package line of quantity two was delivered
\* twice.
C13_Witness ==
    \E o \in OrderIds :
        /\ PackageLine(o, "API-1")
        /\ orders[o].items["API-1"] = 2
        /\ orders[o].deliveries = 2
        /\ Cardinality(LinkedTokens(userTokens, o, "API-1")) = 2

\* C14: a paid order recorded by the checkout flow with a package line of
\* quantity q leads to q tokens of the ordering user linked to that line.
C14_PaidOrderGetsTokens ==
    \A o \in OrderIds, sku \in Skus :
        (PackageLine(o, sku) /\ orders[o].payment_status = "paid")
            ~> (PackageLine(o, sku) /\ LineHasItsTokens(o, sku))

\* C15: from one committed state to the next, api_calls_used of a
\* UserAPIToken does not decrease, unless it becomes zero.
C15_UsageNeverDecreases ==
    [][\A i \in DOMAIN userTokens :
          \/ userTokens'[i].api_calls_used >= userTokens[i].api_calls_used
          \/ userTokens'[i].api_calls_used = 0]_vars

\* C16: no step changes the expires_at of an existing APIToken or
\* UserAPIToken row when the step is one of the owner's token operations
\* (retrieve, update, toggle, regenerate, resolution).
C16_ExpiresAtImmutable ==
    [][(response'.op \in {"update", "toggle", "regenerate", "authenticate",
                          "authenticate_key"})
          => /\ \A pk \in DOMAIN apiTokens \cap DOMAIN apiTokens' :
                    apiTokens'[pk].expires_at = apiTokens[pk].expires_at
             /\ \A i \in DOMAIN userTokens \cap DOMAIN userTokens' :
                    userTokens'[i].expires_at = userTokens[i].expires_at]_vars

\* C17: no two distinct APIToken rows hold the same token string and no two
\* distinct UserAPIToken rows hold the same token_key.
C17_CredentialsUnique ==
    /\ \A i, j \in DOMAIN apiTokens :
          i # j => apiTokens[i].token # apiTokens[j].token
    /\ \A i, j \in DOMAIN userTokens :
          i # j => userTokens[i].token_key # userTokens[j].token_key

\* Two rows exist while two saves are in progress, and the unique constraint
\* has just refused a second row with the empty token.
C17_Witness ==
    /\ response.op = "save"
    /\ response.outcome = "integrity_error"
    /\ \E pk \in DOMAIN apiTokens : apiTokens[pk].token = EmptyToken
    /\ \E w \in Workers : inflight[w].op = "generate"

\* C18: a successful regenerate call, on either endpoint, returns in its
\* response the credential it has just stored.
C18_RegenerateReturnsCredential ==
    [][\A u \in Users, pk \in ApiIds :
          ((RestRegenerate(u, pk) \/ WebRegenerate(u, pk)) /\ Owns(u, pk))
              => response'.key = apiTokens'[pk].token]_vars

\* The credential strings of the APIToken rows.
ApiCredentials == {apiTokens[pk].token : pk \in DOMAIN apiTokens}

\* C19: the responses of list, retrieve, update and toggle contain no
\* credential string; a response that contains one is the response of the
\* create or regenerate call that has just minted and stored it.
C19_CredentialOnlyWhenMinted ==
    [][/\ response'.op \in {"list", "retrieve", "update", "toggle"}
            => response'.key = EmptyToken
       /\ (response' # response /\ response'.key # EmptyToken)
            => /\ response'.op \in {"create", "regenerate"}
               /\ response'.key \notin ApiCredentials
               /\ response'.key \in ApiCredentials']_vars

\* The owner of a token that holds a credential has listed the tokens.
C19_Witness ==
    /\ response.op = "list"
    /\ response.outcome = "ok"
    /\ \E pk \in DOMAIN apiTokens :
          apiTokens[pk].user = response.user /\ apiTokens[pk].token # EmptyToken

\* The step is a successful regenerate of row pk by its owner u.
RegenerateStep(u, pk) ==
    (RestRegenerate(u, pk) \/ WebRegenerate(u, pk)) /\ Owns(u, pk)

\* C20: a regenerate keeps the row's id, owner, name, capability flags,
\* is_active, expires_at and last_used, stores a token that differs from the
\* previous one, and the new token resolves to the same row when the row is
\* active and unexpired.
C20_RegenerateFrame ==
    [][\A u \in Users, pk \in ApiIds :
          RegenerateStep(u, pk)
              => /\ DOMAIN apiTokens' = DOMAIN apiTokens
                 /\ [apiTokens'[pk] EXCEPT !.token = EmptyToken]
                        = [apiTokens[pk] EXCEPT !.token = EmptyToken]
                 /\ apiTokens'[pk].token # apiTokens[pk].token
                 /\ ApiTokenIsValid(apiTokens'[pk], now)
                        => /\ Resolves(apiTokens[pk].token)'
                           /\ ValidateToken(apiTokens'[pk].token, apiTokens', now)
                                  = pk]_vars

\* ------------------------------------------------------------------- cart
\* Ids of the products with status 'active'; id 0 is no active product.
ActiveProducts == 1..NumProducts
ProductIds == 0..NumProducts

\* The quantities a request can carry: negative, zero and positive ones.
Quantities == (0 - 1)..MaxAdd

\* A cart_cartitem row; the cart of a user is identified by the user.
CartItemRow(u, p, q) == [cart |-> u, product |-> p, quantity |-> q]

\* CartItem.objects.filter(cart=cart, product=product), as ids.
ItemsOf(items, u, p) ==
    {i \in DOMAIN items : items[i].cart = u /\ items[i].product = p}

\* The quantity of product p in the cart of u; 0 when there is no item.
RECURSIVE SumQuantity(_, _)
SumQuantity(items, ids) ==
    IF ids = {} THEN 0
    ELSE LET i == CHOOSE j \in ids : TRUE
         IN  items[i].quantity + SumQuantity(items, ids \ {i})

QuantityOf(items, u, p) == SumQuantity(items, ItemsOf(items, u, p))

\* quantity = PositiveIntegerField: the column's check constraint accepts
\* zero and rejects negative values.  MinValueValidator(1) runs in
\* full_clean only, which save and create do not call.
QuantityCheck(q) == q >= 0

\* unique_together = ['cart', 'product'] on CartItem
CartItemTaken(items, u, p) == ItemsOf(items, u, p) # {}

InsertItem(items, id, row) == items @@ (id :> row)
DeleteItems(items, ids) == [i \in DOMAIN items \ ids |-> items[i]]

\* The stored quantity is replaced by the added one.
AddedQuantity_Replace(m, n) == n

\* cart_item.quantity += quantity
AddedQuantity(m, n) == m + n

\* The variables no cart operation writes.
nonCartVars == <<users, orders, inflight, now, storeVars, nextRnd, replaced>>

\* get_or_create of the CartItem, then "+= quantity; save()" when the item
\* was there: the effect of one uninterrupted run on the item table.
AddItemTo(items, nid, u, p, n) ==
    LET found == ItemsOf(items, u, p)
    IN  IF found = {}
        THEN IF QuantityCheck(n)
             THEN [items |-> InsertItem(items, nid, CartItemRow(u, p, n)),
                   next |-> nid + 1, outcome |-> "ok"]
             ELSE [items |-> items, next |-> nid, outcome |-> "error"]
        ELSE LET i == CHOOSE j \in found : TRUE
                 q == AddedQuantity(items[i].quantity, n)
             IN  IF QuantityCheck(q)
                 THEN [items |-> [items EXCEPT ![i].quantity = q],
                       next |-> nid, outcome |-> "ok"]
                 ELSE [items |-> items, next |-> nid, outcome |-> "error"]

\* cart.simple_views.AddToCartView.post for the logged-in user u.  Http404
\* and IntegrityError are caught by "except Exception" (status 400).
AddToCart(u, p, n) ==
    IF p \notin ActiveProducts
    THEN /\ response' = Resp("add_to_cart", NoHeader, "error", u, NoAuth, {},
                             EmptyToken)
         /\ UNCHANGED <<cartVars, nonCartVars>>
    ELSE LET r == AddItemTo(cartItems, nextCartItemId, u, p, n)
         IN  /\ r.next <= MaxCartItemIds + 1
             /\ \A i \in DOMAIN r.items : r.items[i].quantity <= MaxCartQuantity
             /\ carts' = carts \cup {u}
             /\ cartItems' = r.items
             /\ nextCartItemId' = r.next
             /\ response' = Resp("add_to_cart", NoHeader, r.outcome, u, NoAuth,
                                 {}, EmptyToken)
             /\ UNCHANGED <<sessionItems, cartflight, nonCartVars>>

\* cart.simple_views.UpdateCartQuantityView.post
UpdateCartQuantity(u, p, n) ==
    LET found == ItemsOf(cartItems, u, p)
        outcome == IF n <= 0 THEN "error"
                   ELSE IF u \notin carts \/ found = {} THEN "not_found"
                   ELSE "ok"
    IN  /\ cartItems' = IF outcome = "ok"
                        THEN [cartItems EXCEPT
                                 ![CHOOSE j \in found : TRUE].quantity = n]
                        ELSE cartItems
        /\ response' = Resp("update_quantity", NoHeader, outcome, u, NoAuth, {},
                            EmptyToken)
        /\ UNCHANGED <<carts, nextCartItemId, sessionItems, cartflight, nonCartVars>>

\* cart.simple_views.RemoveFromCartView.post
RemoveFromCart(u, p) ==
    LET found == ItemsOf(cartItems, u, p)
        outcome == IF u \notin carts \/ found = {} THEN "not_found" ELSE "ok"
    IN  /\ cartItems' = IF outcome = "ok"
                        THEN DeleteItems(cartItems, {CHOOSE j \in found : TRUE})
                        ELSE cartItems
        /\ response' = Resp("remove_from_cart", NoHeader, outcome, u, NoAuth, {},
                            EmptyToken)
        /\ UNCHANGED <<carts, nextCartItemId, sessionItems, cartflight, nonCartVars>>

\* ---------------------------------------------------------- session cart
\* A cart_sessioncartitem row of the session cart.
SessionItemRow(p, q) == [product |-> p, quantity |-> q]

\* The quantity of product p in the session cart.
SessionQuantityOf(rows, p) ==
    IF \E k \in DOMAIN rows : rows[k].product = p
    THEN rows[CHOOSE k \in DOMAIN rows : rows[k].product = p].quantity
    ELSE 0

\* SessionCartItem.objects.create for the session cart: one row per product
\* (unique_together), quantity in the validator's range.  sessionItems keeps
\* the rows in the order of added_at.
SessionAdd(p, q) ==
    /\ \A k \in DOMAIN sessionItems : sessionItems[k].product # p
    /\ sessionItems' = Append(sessionItems, SessionItemRow(p, q))
    /\ response' = Resp("session_add", NoHeader, "ok", Anonymous, NoAuth, {},
                        EmptyToken)
    /\ UNCHANGED <<carts, cartItems, nextCartItemId, cartflight, nonCartVars>>

\* self.items.all(): ordering = ['-added_at']
NewestFirst(rows) == [k \in 1..Len(rows) |-> rows[Len(rows) + 1 - k]]

\* The loop of SessionCart.merge_with_user_cart over the session items.
RECURSIVE MergeItems(_, _, _, _)
MergeItems(rows, items, nid, u) ==
    IF rows = <<>> THEN [items |-> items, next |-> nid]
    ELSE LET s == Head(rows)
             found == ItemsOf(items, u, s.product)
         IN  IF found = {}
             THEN MergeItems(Tail(rows),
                             InsertItem(items, nid,
                                        CartItemRow(u, s.product, s.quantity)),
                             nid + 1, u)
             ELSE LET i == CHOOSE j \in found : TRUE
                  IN  MergeItems(Tail(rows),
                                 [items EXCEPT ![i].quantity =
                                     AddedQuantity(@, s.quantity)],
                                 nid, u)

\* SessionCart.merge_with_user_cart(user)
MergeWithUserCart(u) ==
    LET m == MergeItems(NewestFirst(sessionItems), cartItems, nextCartItemId, u)
    IN  /\ m.next <= MaxCartItemIds + 1
        /\ \A i \in DOMAIN m.items : m.items[i].quantity <= MaxCartQuantity
        /\ carts' = carts \cup {u}
        /\ cartItems' = m.items
        /\ nextCartItemId' = m.next
        /\ sessionItems' = <<>>
        /\ response' = Resp("merge", NoHeader, "ok", u, NoAuth, {}, EmptyToken)
        /\ UNCHANGED <<cartflight, nonCartVars>>

\* The session cart of one visitor is filled and, at login, merged into the
\* cart of that visitor's account, which also uses the web cart views.
Visitor == CHOOSE u \in Users : TRUE

MergeFill == \E p \in ActiveProducts, q \in 1..MaxQuantity : SessionAdd(p, q)

MergeWeb == \E p \in ActiveProducts : AddToCart(Visitor, p, 1)

MergeLogin == MergeWithUserCart(Visitor)

NextMerge == MergeFill \/ MergeWeb \/ MergeLogin

SpecMerge == Init /\ [][NextMerge]_vars

\* C21: a merge of the session cart into the cart of a user leaves, for every
\* product, the quantity the cart had before plus the quantity of the session
\* cart (0 for a product that was absent), at most one item per product in
\* the user's cart, and an empty session cart.
C21_MergeAddsQuantities ==
    [][response'.op = "merge" =>
          /\ \A p \in ActiveProducts :
                /\ QuantityOf(cartItems', response'.user, p)
                      = QuantityOf(cartItems, response'.user, p)
                            + SessionQuantityOf(sessionItems, p)
                /\ Cardinality(ItemsOf(cartItems', response'.user, p)) <= 1
          /\ sessionItems' = <<>>]_vars

\* A merge has combined the quantities of a product the cart already held
\* and has added a second product.
C21_Witness ==
    /\ response.op = "merge"
    /\ sessionItems = <<>>
    /\ \E p, q \in ActiveProducts :
          /\ p # q
          /\ QuantityOf(cartItems, response.user, p) = MaxCartQuantity
          /\ QuantityOf(cartItems, response.user, q) = 1

\* ------------------------------------------------------------ CartViewSet
\* The variables a CartViewSet request leaves alone outside the cart tables;
\* authentication may save a token row.
cartApiFrame ==
    <<users, orders, inflight, now, nextApiId, nextUserTokenId, nextRnd, replaced>>

\* authentication_classes = [APITokenAuthentication] and permission_classes
\* = [IsAuthenticated]: the request is served when authentication returned a
\* user, and answered 401 otherwise.  No other permission class is listed.
Served(r) == r.outcome = "ok" /\ r.user # Anonymous

\* The saves of the authentication of a CartViewSet request.
CartAuthWrites(r) ==
    /\ \A x \in r.writes :
          x[1] = "usertoken" => userTokens[x[2]].api_calls_used < MaxCalls
    /\ ApplyWrites(r.writes)

CartResp(op, h, outcome, r) ==
    Resp(op, h, outcome, r.user, r.auth, r.writes, EmptyToken)

\* CartViewSet.add_item up to the get of CartItem.objects.get_or_create:
\* product lookup, Cart.objects.get_or_create, then the lookup of the item.
AddItemGet(w, h, p, n) ==
    LET r == APITokenAuthenticate(h)
        found == ItemsOf(cartItems, r.user, p)
    IN  /\ cartflight[w].op = "idle"
        /\ CartAuthWrites(r)
        /\ IF ~Served(r)
           THEN /\ response' = CartResp("add_item", h, "unauthenticated", r)
                /\ UNCHANGED cartVars
           ELSE IF p \notin ActiveProducts
           THEN /\ response' = CartResp("add_item", h, "not_found", r)
                /\ UNCHANGED cartVars
           ELSE /\ carts' = carts \cup {r.user}
                /\ cartflight' =
                      [cartflight EXCEPT ![w] =
                          [op |-> IF found = {} THEN "create" ELSE "save",
                           header |-> h, user |-> r.user, auth |-> r.auth,
                           product |-> p, quantity |-> n,
                           id |-> IF found = {} THEN None
                                  ELSE CHOOSE j \in found : TRUE,
                           loaded |-> IF found = {} THEN 0
                                      ELSE cartItems[CHOOSE j \in found : TRUE]
                                               .quantity]]
                /\ response' = CartResp("add_item", h, "get", r)
                /\ UNCHANGED <<cartItems, nextCartItemId, sessionItems>>
        /\ UNCHANGED cartApiFrame

\* The create of get_or_create.  An IntegrityError (unique_together, or the
\* check on quantity) makes get_or_create look the item up again: it returns
\* the row another request has inserted, with created False, or re-raises.
AddItemCreate(w) ==
    LET f == cartflight[w]
        found == ItemsOf(cartItems, f.user, f.product)
        rejected == CartItemTaken(cartItems, f.user, f.product)
                        \/ ~QuantityCheck(f.quantity)
    IN  /\ f.op = "create"
        /\ IF ~rejected
           THEN /\ nextCartItemId <= MaxCartItemIds
                /\ cartItems' = InsertItem(cartItems, nextCartItemId,
                                    CartItemRow(f.user, f.product, f.quantity))
                /\ nextCartItemId' = nextCartItemId + 1
                /\ cartflight' = [cartflight EXCEPT ![w] = NoRequest]
                /\ response' = Resp("add_item", f.header, "ok", f.user, f.auth,
                                    {}, EmptyToken)
           ELSE IF found # {}
           THEN /\ cartflight' =
                      [cartflight EXCEPT ![w] =
                          [f EXCEPT !.op = "save",
                                    !.id = CHOOSE j \in found : TRUE,
                                    !.loaded = cartItems[CHOOSE j \in found : TRUE]
                                                   .quantity]]
                /\ UNCHANGED <<cartItems, nextCartItemId, response>>
           ELSE /\ cartflight' = [cartflight EXCEPT ![w] = NoRequest]
                /\ response' = Resp("add_item", f.header, "error", f.user, f.auth,
                                    {}, EmptyToken)
                /\ UNCHANGED <<cartItems, nextCartItemId>>
        /\ UNCHANGED <<carts, sessionItems, nonCartVars>>

\* "cart_item.quantity += quantity; cart_item.save()" on the instance the
\* request has loaded.  save() updates the row by primary key and inserts it
\* when no row has that key any more.
AddItemSave(w) ==
    LET f == cartflight[w]
        q == AddedQuantity(f.loaded, f.quantity)
        others == ItemsOf(cartItems, f.user, f.product) \ {f.id}
    IN  /\ f.op = "save"
        /\ q <= MaxCartQuantity
        /\ cartflight' = [cartflight EXCEPT ![w] = NoRequest]
        /\ IF QuantityCheck(q) /\ (f.id \in DOMAIN cartItems \/ others = {})
           THEN /\ cartItems' =
                      IF f.id \in DOMAIN cartItems
                      THEN [cartItems EXCEPT ![f.id].quantity = q]
                      ELSE InsertItem(cartItems, f.id,
                                      CartItemRow(f.user, f.product, q))
                /\ response' = Resp("add_item", f.header, "ok", f.user, f.auth,
                                    {}, EmptyToken)
           ELSE /\ response' = Resp("add_item", f.header, "error", f.user, f.auth,
                                    {}, EmptyToken)
                /\ UNCHANGED cartItems
        /\ UNCHANGED <<carts, nextCartItemId, sessionItems, nonCartVars>>

\* CartViewSet.remove_item
CartRemoveItem(h, p) ==
    LET r == APITokenAuthenticate(h)
        found == ItemsOf(cartItems, r.user, p)
        outcome == IF ~Served(r) THEN "unauthenticated"
                   ELSE IF r.user \notin carts \/ found = {} THEN "not_found"
                   ELSE "ok"
    IN  /\ CartAuthWrites(r)
        /\ cartItems' = IF outcome = "ok"
                        THEN DeleteItems(cartItems, {CHOOSE j \in found : TRUE})
                        ELSE cartItems
        /\ response' = CartResp("remove_item", h, outcome, r)
        /\ UNCHANGED <<carts, nextCartItemId, sessionItems, cartflight>>
        /\ UNCHANGED cartApiFrame

\* CartViewSet.clear
CartClear(h) ==
    LET r == APITokenAuthenticate(h)
        outcome == IF ~Served(r) THEN "unauthenticated"
                   ELSE IF r.user \notin carts THEN "not_found"
                   ELSE "ok"
    IN  /\ CartAuthWrites(r)
        /\ cartItems' = IF outcome = "ok"
                        THEN DeleteItems(cartItems,
                                 {i \in DOMAIN cartItems :
                                     cartItems[i].cart = r.user})
                        ELSE cartItems
        /\ response' = CartResp("clear", h, outcome, r)
        /\ UNCHANGED <<carts, nextCartItemId, sessionItems, cartflight>>
        /\ UNCHANGED cartApiFrame

\* The visitor's account holds a flag-based token whose cart flag is
\* switched; requests with it call the cart API for one product from several
\* workers, while the account also uses the web cart views and logs in with a
\* filled session cart.
CartProduct == CHOOSE p \in ActiveProducts : TRUE

CartIssue ==
    /\ nextRnd <= MaxCreds
    /\ RestCreate(Visitor, nextApiId, Omitted, TRUE, MaxApiTokens)

CartFlag ==
    \E pk \in ApiIds, v \in BOOLEAN : Update(Visitor, pk, "can_manage_cart", v)

CartHeaders == {Header(TRUE, "Bearer", <<c>>) : c \in Stored} \cup {NoHeader}

CartAdd ==
    \E w \in Workers, h \in CartHeaders, n \in Quantities :
        \E p \in {CartProduct, 0} : AddItemGet(w, h, p, n)

CartAddStep == \E w \in Workers : AddItemCreate(w) \/ AddItemSave(w)

CartRemove ==
    \E h \in CartHeaders : CartRemoveItem(h, CartProduct) \/ CartClear(h)

CartWeb ==
    \/ \E n \in Quantities :
          \/ AddToCart(Visitor, CartProduct, n)
          \/ UpdateCartQuantity(Visitor, CartProduct, n)
    \/ RemoveFromCart(Visitor, CartProduct)

CartLogin ==
    \/ SessionAdd(CartProduct, 1)
    \/ MergeWithUserCart(Visitor)

NextCart == CartIssue \/ CartFlag \/ CartAdd \/ CartAddStep \/ CartRemove

NextCartOps == CartIssue \/ CartAdd \/ CartAddStep \/ CartWeb \/ CartLogin

SpecCartOps == Init /\ [][NextCartOps]_vars

SpecCart == Init /\ [][NextCart]_vars

\* The add_item request of worker w writes the item table in this step: it
\* inserts the item, or saves the item it has loaded and that is still there.
AddItemWrote(w) ==
    /\ cartflight[w].op \in {"create", "save"}
    /\ cartflight[w].op = "save" => cartflight[w].id \in DOMAIN cartItems
    /\ cartflight'[w].op = "idle"
    /\ response'.outcome = "ok"

\* C22: an add_item request for an active product with quantity n >= 1
\* creates one item with quantity n when the cart has none for the product,
\* and otherwise raises the quantity m of the existing item to m + n without
\* creating a second item, also while another add_item request for the same
\* user and product is in progress.
C22_AddItemAddsQuantity ==
    [][\A w \in Workers :
          (AddItemWrote(w) /\ cartflight[w].quantity >= 1) =>
              LET f == cartflight[w]
              IN  /\ QuantityOf(cartItems', f.user, f.product)
                        = QuantityOf(cartItems, f.user, f.product) + f.quantity
                  /\ Cardinality(ItemsOf(cartItems', f.user, f.product)) = 1]_vars

\* C30: every stored CartItem has quantity >= 1.
C30_QuantityAtLeastOne ==
    \A i \in DOMAIN cartItems : cartItems[i].quantity >= 1

\* The operations of CartViewSet that change the cart.
CartApiOps == {"add_item", "remove_item", "clear"}

\* C23: a cart API request authenticated by a flag-based APIToken whose
\* can_manage_cart flag is false is not carried out (no item lookup, no
\* success response) and leaves the owner's cart and its items unchanged.
C23_CartFlagGate ==
    [][(/\ response' # response
        /\ response'.op \in CartApiOps
        /\ response'.auth.kind = "apitoken"
        /\ ~response'.auth.can_manage_cart)
          => /\ response'.outcome \notin {"get", "ok"}
             /\ UNCHANGED <<carts, cartItems>>]_vars

\* ------------------------------------------------------------ call volume
\* APITokenPackage.api_calls_per_month of a package.  The field is an
\* IntegerField the admin form edits; the seeded values (1000 and more) lie
\* beyond the bound on the counters, so every package has ceiling
\* CallCeiling here.
ApiCallsPerMonth(package) == CallCeiling

\* UserAPIToken.get_remaining_api_calls
GetRemainingApiCalls(rec) ==
    IF ApiCallsPerMonth(rec.package) - rec.api_calls_used > 0
    THEN ApiCallsPerMonth(rec.package) - rec.api_calls_used
    ELSE 0

\* Package tokens are issued, switched by the admin and presented until their
\* counters reach MaxUsage.
QuotaSubscribe ==
    \E u \in Users : nextRnd <= MaxCreds /\ CreateFromPackage(u, "week")

QuotaRequest == \E h \in BearerHeaders : AuthenticateUpTo(h, MaxUsage)

QuotaAdmin ==
    \E id \in UserTokenIds, v \in {"active", "revoked", "expired"} :
        AdminEditUserToken(id, "status", v)

NextQuota == Tick \/ QuotaSubscribe \/ QuotaRequest \/ QuotaAdmin

SpecQuota == Init /\ [][NextQuota]_vars

\* C24: a package-bound credential resolves successfully (which counts one
\* call on its record) only while the record has calls remaining, so that
\* api_calls_used never exceeds the package's api_calls_per_month.
C24_CeilingStopsResolution ==
    [][\A i \in DOMAIN userTokens :
          userTokens'[i].api_calls_used > userTokens[i].api_calls_used
              => /\ GetRemainingApiCalls(userTokens[i]) > 0
                 /\ userTokens'[i].api_calls_used
                        <= ApiCallsPerMonth(userTokens[i].package)]_vars

\* ------------------------------------------------------ web token creation
\* The expires_in_days values a client of the web form can send: none, and
\* integers below, at, inside and above the bounds of the range 1..365.
WebDays == {Omitted, 0 - 1, 0, 1, 365, 366}

WebIssue ==
    \E u \in Users, days \in WebDays :
        /\ nextRnd <= MaxCreds
        /\ \E name \in NamesOf(u) \cup {nextApiId} :
              WebCreate(u, name, days, MaxSaveIds)

WebRemove == \E u \in Users, pk \in 1..MaxSaveIds : WebDelete(u, pk)

NextWeb == Tick \/ WebIssue \/ WebRemove

SpecWeb == Init /\ [][NextWeb]_vars

\* C25: a web create_api_token request that passes the name and limit checks
\* is rejected without creating a token when it supplies expires_in_days
\* outside 1..365; it creates a token without expiry only when
\* expires_in_days is omitted, and one that expires expires_in_days days
\* after its creation otherwise.
C25_WebExpiryValidated ==
    [][\A u \in Users, days \in WebDays :
          (/\ nextApiId \notin NamesOf(u)
           /\ ActiveCount(u) < TokenLimit
           /\ WebCreate(u, nextApiId, days, MaxSaveIds))
              => IF days = Omitted
                 THEN /\ response'.outcome = "ok"
                      /\ apiTokens'[nextApiId].expires_at = None
                 ELSE IF days < 1 \/ days > 365
                 THEN /\ response'.outcome = "rejected"
                      /\ UNCHANGED <<apiTokens, nextApiId>>
                 ELSE /\ response'.outcome = "ok"
                      /\ apiTokens'[nextApiId].expires_at = now + days]_vars

\* ------------------------------------------------------- deactivated users
\* User.is_active is set to false or back to true (the field of
\* AbstractUser the authenticators read).
SetUserActive(u, v) ==
    /\ users' = [users EXCEPT ![u].is_active = v]
    /\ response' = Resp("set_active", NoHeader, "ok", u, NoAuth, {}, EmptyToken)
    /\ UNCHANGED <<cartVars, orders, inflight, now, storeVars, nextRnd, replaced>>

\* Users with flag-based and package tokens are deactivated and reactivated
\* while their credentials and login JWTs are presented to both resolvers.
ActiveIssue ==
    \E u \in Users :
        /\ nextRnd <= MaxCreds
        /\ \/ RestCreate(u, nextApiId, Omitted, TRUE, MaxApiTokens)
           \/ CreateFromPackage(u, "week")

ActiveSwitch == \E u \in Users, v \in BOOLEAN : SetUserActive(u, v)

ActiveRequest ==
    \E h \in BearerHeaders : Authenticate(h) \/ AuthenticateKey(h)

NextActive == ActiveIssue \/ ActiveSwitch \/ ActiveRequest

SpecActive == Init /\ [][NextActive]_vars

\* C26: no resolver returns the identity of a user whose is_active is false,
\* and APITokenAuthentication leaves the rows of such a user's flag-based
\* tokens (last_used) as they are.
C26_InactiveUserNeverResolves ==
    [][(/\ response' # response
        /\ response'.op \in {"authenticate", "authenticate_key"})
          => /\ response'.outcome = "ok" => users[response'.user].is_active
             /\ response'.op = "authenticate" =>
                   \A k \in DOMAIN apiTokens :
                       ~users[apiTokens[k].user].is_active
                           => apiTokens'[k] = apiTokens[k]]_vars

\* ------------------------------------------------------ foreign token ids
\* A call of user v on the token id pk through one of the endpoints that
\* address a single token.
CallOnToken(v, pk) ==
    \/ Retrieve(v, pk)
    \/ \E value \in BOOLEAN : Update(v, pk, "is_active", value)
    \/ \E value \in {None, 1} : Update(v, pk, "expires_at", value)
    \/ Delete(v, pk)
    \/ WebDelete(v, pk)
    \/ RestRegenerate(v, pk)
    \/ WebRegenerate(v, pk)
    \/ Toggle(v, pk)

\* C27: a call of user v on a token id owned by another user is answered
\* not-found and leaves every token row, and so the owner's set of tokens,
\* as it is.
C27_ForeignTokenNotFound ==
    [][\A v \in Users, pk \in DOMAIN apiTokens :
          (apiTokens[pk].user # v /\ CallOnToken(v, pk))
              => /\ response'.outcome = "not_found"
                 /\ UNCHANGED <<apiTokens, replaced>>]_vars

\* ------------------------------------------------- overlapping deliveries
\* The receiver's walk over instance.items.all() from line k on, up to the
\* first package line that passes "not item.api_tokens.exists()": its
\* position in ItemOrder, or 0 when the walk ends without one.
RECURSIVE FirstPending(_, _, _)
FirstPending(ord, o, k) ==
    IF k > Len(ItemOrder) THEN 0
    ELSE IF /\ ItemOrder[k] \in DOMAIN ord.items
            /\ IsApiSku(ItemOrder[k])
            /\ PackageIdOf(ItemOrder[k]) \in DOMAIN Packages
            /\ LinkedTokens(userTokens, o, ItemOrder[k]) = {}
    THEN k
    ELSE FirstPending(ord, o, k + 1)

\* The worker's state while the receiver is between the exists() test of
\* line k and the creation of that line's tokens.
Minting(o, k) ==
    IF k = 0 THEN Idle
    ELSE [op |-> "mint", id |-> o, api_calls_used |-> 0,
          instance |-> <<ItemOrder[k]>>]

\* _handle_payment_success of worker w up to the test of payment_status:
\* Order.objects.get returns an order that is not paid.
DeliverLoad(w, o) ==
    /\ inflight[w].op = "idle"
    /\ o \in DOMAIN orders
    /\ orders[o].payment_status # "paid"
    /\ inflight' = [inflight EXCEPT ![w] =
                       [op |-> "webhook", id |-> o, api_calls_used |-> 0,
                        instance |-> <<>>]]
    /\ response' = Resp("payment_succeeded", NoHeader, "loaded", Anonymous,
                        NoAuth, {}, EmptyToken)
    /\ UNCHANGED <<cartVars, users, orders, now, storeVars, nextRnd, replaced>>

\* order.save() of worker w with payment_status 'paid'; post_save runs the
\* receiver up to the exists() test of the first package line without tokens.
DeliverSave(w) ==
    LET o == inflight[w].id
    IN  /\ inflight[w].op = "webhook"
        /\ orders[o].deliveries < MaxDeliveries
        /\ orders' = [orders EXCEPT ![o].payment_status = "paid",
                                    ![o].deliveries = @ + 1]
        /\ inflight' = [inflight EXCEPT ![w] =
                           Minting(o, FirstPending(orders[o], o, 1))]
        /\ response' = Resp("payment_succeeded", NoHeader, "saved", Anonymous,
                            NoAuth, {}, EmptyToken)
        /\ UNCHANGED <<cartVars, users, now, storeVars, nextRnd, replaced>>

\* The position of a line's product in the receiver's walk.
PositionOf(sku) == CHOOSE k \in 1..Len(ItemOrder) : ItemOrder[k] = sku

\* "for _ in range(item.quantity): create_from_package(...)" of worker w for
\* the line it has tested, then the walk to the next line to test.
DeliverMint(w) ==
    LET o == inflight[w].id
        sku == inflight[w].instance[1]
        st == MintTokens(TokenTable(userTokens, nextUserTokenId, nextRnd),
                         orders[o].user, PackageIdOf(sku),
                         [order |-> o, sku |-> sku], orders[o].items[sku])
    IN  /\ inflight[w].op = "mint"
        /\ userTokens' = st.store
        /\ nextUserTokenId' = st.nextId
        /\ nextRnd' = st.rnd
        /\ inflight' = [inflight EXCEPT ![w] =
                           Minting(o, FirstPending(orders[o], o,
                                                   PositionOf(sku) + 1))]
        /\ response' = Resp("payment_succeeded", NoHeader, "ok", Anonymous,
                            NoAuth, {}, EmptyToken)
        /\ UNCHANGED <<cartVars, users, orders, now, apiTokens, nextApiId, replaced>>

\* Orders are placed, their payments fail, and webhook deliveries of
\* payment_intent.succeeded are handled by several workers at once.
DeliverStart == \E w \in Workers, o \in OrderIds : DeliverLoad(w, o)

DeliverStep == \E w \in Workers : DeliverSave(w) \/ DeliverMint(w)

NextDeliver == PlaceOrder \/ PaymentFailed \/ DeliverStart \/ DeliverStep

SpecDeliver == Init /\ [][NextDeliver]_vars

\* C28: however the deliveries of the order-paid signal of an order overlap,
\* a package line of quantity q never has more than q tokens linked to it.
C28_OverlapKeepsQuantity ==
    \A o \in OrderIds, sku \in Skus :
        PackageLine(o, sku)
            => Cardinality(LinkedTokens(userTokens, o, sku)) <= orders[o].items[sku]

\* C29: no committed state holds an APIToken row whose token is empty, and no
\* create or regenerate fails on the unique constraint of the token column
\* because of another create or regenerate in progress.
C29_NoEmptyCredentialCommitted ==
    /\ \A pk \in DOMAIN apiTokens : apiTokens[pk].token # EmptyToken
    /\ ~(response.op = "save" /\ response.outcome = "integrity_error")

====
